---- MODULE Spec2Model ----
(***************************************************************************)
(* A model of os::http::HttpClient (components/os/http/HttpClient.cpp):    *)
(* one HTTP/1.1 exchange driven over an asynchronous transport.  The       *)
(* variables are the fields of the HttpClient object, the asynchronous     *)
(* operations outstanding on its transport, and a record of the calls the  *)
(* object made to its caller (complete_slot, body slot) and to its         *)
(* transport.  Every action is one entry point of the class or one         *)
(* completion handler (lambda) with everything it calls.                   *)
(***************************************************************************)
EXTENDS Integers, Sequences, FiniteSets, TLC

----------------------------------------------------------------------------
(* Bounds of the model *)

\* width in bits of std::size_t and int in the model (32 on the target)
SizeBits == 10
\* largest Content-Length value a response declares
MaxContentLength == 2
\* most body bytes that arrive together with the header block
MaxSpill == 2
\* most read_body_async calls the caller makes in one exchange
MaxReads == 2
\* largest ordinary max_size the caller passes to read_body_async
MaxReadSize == 2
\* largest request body
MaxRequestBody == 1

SizeMod == 2 ^ SizeBits
IntHalf == 2 ^ (SizeBits - 1)

Min(a, b) == IF a < b THEN a ELSE b
Max(a, b) == IF a > b THEN a ELSE b

\* conversion of a value to std::size_t (modular)
ToSize(x) == x % SizeMod
\* conversion of a std::size_t value to int (two's complement)
ToInt(x) == IF x >= IntHalf THEN x - SizeMod ELSE x

----------------------------------------------------------------------------
(* Strings are sequences of one-character strings *)

UpperCase ==
  <<"A","B","C","D","E","F","G","H","I","J","K","L","M",
    "N","O","P","Q","R","S","T","U","V","W","X","Y","Z">>
LowerCase ==
  <<"a","b","c","d","e","f","g","h","i","j","k","l","m",
    "n","o","p","q","r","s","t","u","v","w","x","y","z">>
Digits == <<"0","1","2","3","4","5","6","7","8","9">>

ToLower(c) ==
  IF \E i \in 1..26 : UpperCase[i] = c
  THEN LowerCase[CHOOSE i \in 1..26 : UpperCase[i] = c]
  ELSE c

IsDigit(c) == \E i \in 1..10 : Digits[i] = c
DigitValue(c) == (CHOOSE i \in 1..10 : Digits[i] = c) - 1

\* boost::iequals
IEquals(a, b) ==
  /\ Len(a) = Len(b)
  /\ \A i \in 1..Len(a) : ToLower(a[i]) = ToLower(b[i])

\* boost::ifind_first, converted to bool
IFindFirst(hay, needle) ==
  \E i \in 0..(Len(hay) - Len(needle)) :
    \A j \in 1..Len(needle) : ToLower(hay[i + j]) = ToLower(needle[j])

STR_close == <<"c","l","o","s","e">>
STR_chunked == <<"c","h","u","n","k","e","d">>

RECURSIVE DigitsValue(_)
DigitsValue(s) ==
  IF Len(s) = 0 THEN 0
  ELSE 10 * DigitsValue(SubSeq(s, 1, Len(s) - 1)) + DigitValue(s[Len(s)])

AllDigits(s) == Len(s) > 0 /\ \A i \in 1..Len(s) : IsDigit(s[i])

\* the outcome of a boost::lexical_cast: a value, or bad_lexical_cast thrown
Cast(v) == [ok |-> TRUE, value |-> v]
BadCast == [ok |-> FALSE, value |-> 0]

\* boost::lexical_cast<int>(std::string)
LexicalCastInt(s) ==
  LET signed == Len(s) > 0 /\ s[1] \in {"+", "-"}
      body == IF signed THEN Tail(s) ELSE s
  IN IF ~AllDigits(body) THEN BadCast
     ELSE LET v == DigitsValue(body)
          IN IF signed /\ s[1] = "-"
             THEN (IF v > IntHalf THEN BadCast ELSE Cast(0 - v))
             ELSE (IF v >= IntHalf THEN BadCast ELSE Cast(v))

\* boost::lexical_cast<std::size_t>(std::string): a leading minus sign is
\* accepted and the value negated in the unsigned type
LexicalCastSize(s) ==
  LET signed == Len(s) > 0 /\ s[1] \in {"+", "-"}
      body == IF signed THEN Tail(s) ELSE s
  IN IF ~AllDigits(body) THEN BadCast
     ELSE LET v == DigitsValue(body)
          IN IF v >= SizeMod THEN BadCast
             ELSE IF signed /\ s[1] = "-" THEN Cast(ToSize(SizeMod - v))
             ELSE Cast(v)

IsSpace(c) == c \in {" ", "\t", "\r", "\n"}

RECURSIVE TrimLeft(_)
TrimLeft(s) ==
  IF Len(s) > 0 /\ IsSpace(s[1]) THEN TrimLeft(Tail(s)) ELSE s

RECURSIVE TrimRight(_)
TrimRight(s) ==
  IF Len(s) > 0 /\ IsSpace(s[Len(s)])
  THEN TrimRight(SubSeq(s, 1, Len(s) - 1))
  ELSE s

\* boost::algorithm::trim
Trim(s) == TrimRight(TrimLeft(s))

RECURSIVE to_string(_)
\* std::to_string(std::size_t)
to_string(n) ==
  IF n < 10 THEN <<Digits[n + 1]>>
  ELSE Append(to_string(n \div 10), Digits[(n % 10) + 1])

----------------------------------------------------------------------------
(* os::http::Headers: a map from header name to value whose lookup ignores *)
(* the case of the name.  A name is represented by its lower-case form.    *)

HeaderKey(name) ==
  CASE name \in {"Connection", "connection"} -> "connection"
    [] name \in {"Transfer-Encoding", "transfer-encoding"} -> "transfer-encoding"
    [] name \in {"Content-Length", "content-length"} -> "content-length"
    [] name \in {"Host", "host"} -> "host"
    [] OTHER -> name

NoHeaders == [k \in {} |-> <<>>]
HeadersHas(h, name) == HeaderKey(name) \in DOMAIN h
HeadersGet(h, name) == h[HeaderKey(name)]
\* std::map::emplace: an existing entry is left as it is
HeadersEmplace(h, name, value) ==
  IF HeadersHas(h, name) THEN h
  ELSE [k \in DOMAIN h \cup {HeaderKey(name)} |->
          IF k = HeaderKey(name) THEN value ELSE h[k]]

\* a default-constructed os::http::Response
EmptyResponse ==
  [status_code |-> 0, status_message |-> <<>>, headers |-> NoHeaders]

----------------------------------------------------------------------------
(* Values *)

NoError == "ok"
\* non-zero std::error_code values the transport reports
ErrorCodes == {"ECONNRESET", "ETIMEDOUT"}

NullSock == "nullptr"
\* what a member call through the null sock pointer can lead to
NullDerefOutcomes == {"crash", "returns"}

\* Request URI host
UriHost == <<"h">>

HostOnly == [k \in {"host"} |-> <<"x">>]
TEChunked == [k \in {"transfer-encoding"} |-> STR_chunked]
CLOnly == [k \in {"content-length"} |-> <<"9">>]

\* requests the caller passes to execute
RequestInputs ==
  {[host |-> UriHost, headers |-> NoHeaders, content |-> n] :
      n \in 0..MaxRequestBody}
  \cup {[host |-> UriHost, headers |-> h, content |-> 1] :
      h \in {HostOnly, TEChunked, CLOnly}}

\* status lines a server sends: <<status code token, rest of the line>>
OkLine == <<<<"2","0","0">>, <<" ","O","K","\r">>>>
StatusLines ==
  { OkLine,
    <<<<"4","0","4">>, <<" ","N","o"," ","\r">>>>,
    <<<<"O","K">>, <<"\r">>>> }

ConnectionValues ==
  { STR_close,
    <<"C","l","o","s","e">>,
    <<"k","e","e","p","-","a","l","i","v","e">>,
    <<"K","e","e","p","-","A","l","i","v","e",","," ","c","l","o","s","e">> }

TransferEncodingValues == { STR_chunked, <<"g","z","i","p">> }

ContentLengthValues ==
  {to_string(n) : n \in 0..MaxContentLength} \cup { <<"x">> }

WithHeader(h, key, values) ==
  {[k \in DOMAIN h \cup {key} |-> IF k = key THEN v ELSE h[k]] : v \in values}

\* header blocks a server sends, as the header container parses them: with
\* and without Content-Length, with and without Transfer-Encoding
LengthHeaders ==
  {NoHeaders} \cup WithHeader(NoHeaders, "content-length", ContentLengthValues)
EncodedHeaders ==
  UNION {WithHeader(h, "transfer-encoding", TransferEncodingValues) :
           h \in {NoHeaders,
                  [k \in {"content-length"} |-> to_string(MaxContentLength)]}}
ConnectionHeaders ==
  WithHeader(NoHeaders, "connection", ConnectionValues)

\* what read_until_async leaves in the receive buffer: a status line, a
\* header block and spill body bytes read together with the header block
ResponseInputs ==
  {[line |-> l, headers |-> h, spill |-> 0] :
      l \in StatusLines, h \in {NoHeaders} \cup ConnectionHeaders}
  \cup {[line |-> OkLine, headers |-> h, spill |-> b] :
      h \in LengthHeaders, b \in 0..MaxSpill}
  \cup {[line |-> OkLine, headers |-> h, spill |-> b] :
      h \in EncodedHeaders, b \in {0, MaxSpill}}

\* the wire form of a chunked body: one chunk of one byte and the final
\* chunk
ChunkedBody == <<"1","\r","\n","a","\r","\n","0","\r","\n","\r","\n">>

\* the spill bytes of a response: the first bytes of the body as it is on the
\* wire
SpillBytes(inp) ==
  IF "transfer-encoding" \in DOMAIN inp.headers
  THEN SubSeq(ChunkedBody, 1, inp.spill)
  ELSE [i \in 1..inp.spill |-> "b"]

\* max_size values the caller passes to read_body_async
ReadSizes == (1..MaxReadSize) \cup {IntHalf, SizeMod - 1}

----------------------------------------------------------------------------
(* State *)

VARIABLES
  ca_cert,            \* HttpClient::ca_cert is set
  client_cert,        \* HttpClient::client_cert is set
  client_key,         \* HttpClient::client_key is set
  executed,           \* execute has been called
  request,            \* HttpClient::request
  sock,               \* HttpClient::sock: NullSock, "tcp" or "tls"
  tls_client_cert,    \* the client certificate was installed on the TLS stream
  closed,             \* close() was called on the transport
  pending,            \* asynchronous operations outstanding on the transport
  issued,             \* every transport operation issued, in order
  response,           \* HttpClient::response
  keep_alive,         \* HttpClient::keep_alive
  body_length,        \* HttpClient::body_length
  body_length_left,   \* HttpClient::body_length_left
  consume_size,       \* response_buffer.consume_size()
  completions,        \* the calls of complete_slot, in order
  body_calls,         \* number of calls of body slots
  null_calls,         \* member calls made through sock while it was null
  fault,              \* a crash or an exception that left a handler
  last,               \* the completion or read_body_async call of the last step
  at_parse,           \* body bytes in the receive buffer at header parse
  transferred,        \* bytes transferred by successful body reads
  read_calls,         \* number of read_body_async calls made
  request_buffer,     \* header lines send_request put into the request buffer
  received,           \* the header block handed to handle_response, if any
  owner_holds         \* the owner still holds its shared_ptr to the client

vars ==
  <<ca_cert, client_cert, client_key, executed, request, sock,
    tls_client_cert, closed, pending, issued, response, keep_alive,
    body_length, body_length_left, consume_size, completions, body_calls,
    null_calls, fault, last, at_parse, transferred, read_calls,
    request_buffer, received, owner_holds>>

config_vars == <<ca_cert, client_cert, client_key>>
parse_vars ==
  <<response, keep_alive, body_length, body_length_left, at_parse, received>>

NoEvent == [op |-> "none", ec |-> NoError]

\* the member initialisers of keep_alive, body_length and body_length_left
DefaultKeepAlive == TRUE
DefaultBodyLength == 0
DefaultBodyLengthLeft == 0

Init ==
  /\ ca_cert = FALSE
  /\ client_cert = FALSE
  /\ client_key = FALSE
  /\ executed = FALSE
  /\ request = [host |-> UriHost, headers |-> NoHeaders, content |-> 0]
  /\ sock = NullSock
  /\ tls_client_cert = FALSE
  /\ closed = FALSE
  /\ pending = {}
  /\ issued = <<>>
  /\ response = EmptyResponse
  /\ keep_alive = DefaultKeepAlive
  /\ body_length = DefaultBodyLength
  /\ body_length_left = DefaultBodyLengthLeft
  /\ consume_size = 0
  /\ completions = <<>>
  /\ body_calls = 0
  /\ null_calls = 0
  /\ fault = "none"
  /\ last = NoEvent
  /\ at_parse = 0
  /\ transferred = 0
  /\ read_calls = 0
  /\ request_buffer = {}
  /\ received = <<>>
  /\ owner_holds = TRUE

----------------------------------------------------------------------------
(* Helpers shared by the handlers *)

Event(op, ec) == [op |-> op, ec |-> ec]

\* a call of read_body_async: its size argument and the bytes_to_read it
\* computed
ReadCall(size, n) ==
  [op |-> "read_body_async", ec |-> NoError, size |-> size, n |-> n]

\* the handler of the body read capturing nothing but this and slot
captures_self_except_body_read(op) == op # "read_body"

\* whether the completion handler given to the transport captures
\* self = shared_from_this(), for each of the five asynchronous calls
captures_self(op) ==
  CASE op = "connect" -> TRUE
    [] op = "write_header" -> TRUE
    [] op = "write_body" -> TRUE
    [] op = "read_until" -> TRUE
    [] op = "read_body" -> TRUE

Operation(op, n) ==
  [id |-> Len(issued) + 1, op |-> op, n |-> n, self |-> captures_self(op)]

\* an asynchronous call on the transport: the operation is outstanding
\* until its completion handler runs
Issue(base, op, n) ==
  /\ pending' = base \cup {Operation(op, n)}
  /\ issued' = Append(issued, op)

\* a call on the transport that throws std::system_error
IssueThrows(base, op, n) ==
  /\ pending' = base
  /\ issued' = Append(issued, op)

\* complete_slot.call(ec, response), with the transport as it is at the call
CompleteCall(ec, s, c, resp) ==
  [ec |-> ec, sock |-> s, closed |-> c, response |-> resp]

\* HttpClient::handle_error, entered with sock = s and the transport's
\* closed flag = c
handle_error(s, c, ec) ==
  IF ec = NoError
  THEN /\ sock' = s
       /\ closed' = c
       /\ UNCHANGED <<completions, null_calls, fault>>
  ELSE IF s = NullSock
  THEN \* sock->close() through a null pointer
       /\ null_calls' = null_calls + 1
       /\ closed' = c
       /\ sock' = NullSock
       /\ \E outcome \in NullDerefOutcomes :
            IF outcome = "crash"
            THEN /\ fault' = "null_dereference"
                 /\ UNCHANGED completions
            ELSE /\ fault' = fault
                 /\ completions' =
                      Append(completions, CompleteCall(ec, NullSock, c, response))
  ELSE /\ closed' = TRUE
       /\ sock' = NullSock
       /\ completions' =
            Append(completions, CompleteCall(ec, NullSock, TRUE, response))
       /\ UNCHANGED <<null_calls, fault>>

\* HttpClient::update_request_headers
update_request_headers(req) ==
  LET h1 == HeadersEmplace(req.headers, "Host", req.host)
      h2 == IF \/ ~HeadersHas(h1, "Transfer-Encoding")
               \/ ~IFindFirst(HeadersGet(h1, "Transfer-Encoding"), STR_chunked)
            THEN HeadersEmplace(h1, "Content-Length", to_string(req.content))
            ELSE h1
  IN [req EXCEPT !.headers = h2]

\* the header lines send_request streams into the request buffer, each a
\* name and a value
HeaderLines(h) == {<<k, h[k]>> : k \in DOMAIN h}

\* HttpClient::read_response
read_response(base) == Issue(base, "read_until", 0)

\* send_body without the test of the request body's size
send_body_skips_body(base) == read_response(base)

\* HttpClient::send_body
send_body(base) ==
  IF request.content > 0
  THEN Issue(base, "write_body", request.content)
  ELSE read_response(base)

\* HttpClient::send_request; wr is the error write_async throws, if any
send_request(base, wr) ==
  /\ request' = update_request_headers(request)
  /\ request_buffer' = HeaderLines(update_request_headers(request).headers)
  /\ IF wr = NoError
     THEN /\ Issue(base, "write_header", 0)
          /\ UNCHANGED <<sock, closed, completions, null_calls, fault>>
     ELSE /\ IssueThrows(base, "write_header", 0)
          /\ handle_error(sock, closed, wr)

\* the number of bytes read_body_async asks the transport for
BytesToRead(left, size, buffered) ==
  Min(left, ToSize(Max(0, ToInt(ToSize(size - buffered)))))

\* the byte counts a successful read_async of n bytes may report
Transfers(n) == (1..Min(n, MaxContentLength + 1)) \cup {n}

----------------------------------------------------------------------------
(* Configuration and start *)

set_client_certificate(cert, key) ==
  /\ owner_holds
  /\ ~executed
  /\ client_cert' = cert
  /\ client_key' = key
  /\ last' = NoEvent
  /\ UNCHANGED <<ca_cert, executed, request, request_buffer, sock,
                 tls_client_cert, closed, pending, issued, parse_vars,
                 consume_size, completions, body_calls, null_calls, fault,
                 transferred, read_calls, owner_holds>>

set_ca_certificate(cert) ==
  /\ owner_holds
  /\ ~executed
  /\ ca_cert' = cert
  /\ last' = NoEvent
  /\ UNCHANGED <<client_cert, client_key, executed, request, request_buffer,
                 sock, tls_client_cert, closed, pending, issued, parse_vars,
                 consume_size, completions, body_calls, null_calls, fault,
                 transferred, read_calls, owner_holds>>

\* execute: the stream it constructs
make_stream(ca) == IF ca THEN "tls" ELSE "tcp"

\* execute installing the client certificate whenever one is configured
client_certificate_without_key(ca, cert, key) == ca /\ cert

\* execute: whether set_client_certificate is called on the stream
client_certificate_installed(ca, cert, key) == ca /\ cert /\ key

\* HttpClient::execute.  ctor is the error the construction or configuration
\* of the stream throws, conn the error connect throws, if any
execute(req, ctor, conn) ==
  /\ owner_holds
  /\ ~executed
  /\ fault = "none"
  /\ executed' = TRUE
  /\ request' = req
  /\ IF ctor # NoError
     THEN /\ last' = Event("construct", ctor)
          /\ handle_error(sock, closed, ctor)
          /\ UNCHANGED <<tls_client_cert, pending, issued>>
     ELSE LET s == make_stream(ca_cert) IN
          /\ tls_client_cert' =
               client_certificate_installed(ca_cert, client_cert, client_key)
          /\ last' = Event("execute", conn)
          /\ IF conn # NoError
             THEN /\ IssueThrows(pending, "connect", 0)
                  /\ handle_error(s, FALSE, conn)
             ELSE /\ Issue(pending, "connect", 0)
                  /\ sock' = s
                  /\ UNCHANGED <<closed, completions, null_calls, fault>>
  /\ UNCHANGED <<config_vars, parse_vars, consume_size, body_calls,
                 transferred, read_calls, request_buffer, owner_holds>>

----------------------------------------------------------------------------
(* Response parsing *)

\* HttpClient::parse_status_line: the response it leaves; nothing is
\* assigned when boost::lexical_cast throws
parse_status_line(resp, line) ==
  LET code == LexicalCastInt(line[1])
  IN IF ~code.ok THEN resp
     ELSE [resp EXCEPT !.status_code = code.value,
                       !.status_message = Trim(line[2])]

\* HttpClient::parse_headers: the value of keep_alive
parse_keep_alive(h, ka) ==
  IF HeadersHas(h, "connection")
  THEN ~IEquals(HeadersGet(h, "Connection"), STR_close)
  ELSE ka

\* HttpClient::parse_headers: the local chunked
parse_chunked(h) ==
  IF HeadersHas(h, "transfer-encoding")
  THEN IFindFirst(HeadersGet(h, "transfer-encoding"), STR_chunked)
  ELSE FALSE

\* parse_headers without the comparison that guards the subtraction
parse_body_length_left_unguarded(len, buffered) == ToSize(len - buffered)

\* HttpClient::parse_headers: body_length_left from body_length and the
\* bytes in the receive buffer
parse_body_length_left(len, buffered) ==
  IF len > buffered THEN len - buffered ELSE 0

\* HttpClient::handle_response, run by the read_until_async handler on the
\* bytes inp the transport put into the receive buffer.  consume_size counts
\* the bytes that follow the header block; the bytes of a header block that
\* an exception leaves unparsed are not counted
handle_response(inp) ==
  LET r1 == parse_status_line(response, inp.line)
      r2 == [r1 EXCEPT !.headers = inp.headers]
      framed == /\ ~parse_chunked(inp.headers)
                /\ HeadersHas(inp.headers, "Content-Length")
      len == LexicalCastSize(HeadersGet(inp.headers, "Content-Length"))
  IN
  /\ received' = <<inp>>
  /\ consume_size' = inp.spill
  /\ at_parse' = inp.spill
  /\ IF ~LexicalCastInt(inp.line[1]).ok
     THEN \* bad_lexical_cast leaves parse_status_line and the handler
          /\ fault' = "uncaught_exception"
          /\ UNCHANGED <<response, keep_alive, body_length, body_length_left,
                         completions>>
     ELSE IF framed /\ ~len.ok
     THEN \* bad_lexical_cast leaves parse_headers and the handler
          /\ fault' = "uncaught_exception"
          /\ response' = r2
          /\ keep_alive' = parse_keep_alive(inp.headers, keep_alive)
          /\ UNCHANGED <<body_length, body_length_left, completions>>
     ELSE /\ response' = r2
          /\ keep_alive' = parse_keep_alive(inp.headers, keep_alive)
          /\ IF framed
             THEN /\ body_length' = len.value
                  /\ body_length_left' =
                       parse_body_length_left(len.value, inp.spill)
             ELSE UNCHANGED <<body_length, body_length_left>>
          /\ completions' =
               Append(completions, CompleteCall(NoError, sock, closed, r2))
          /\ UNCHANGED fault

----------------------------------------------------------------------------
(* Completion handlers of the transport operations *)

\* a handler may run: its operation is outstanding; a closed transport
\* completes its operations with an error only
Completes(p, op, ec) ==
  /\ fault = "none"
  /\ p \in pending
  /\ p.op = op
  /\ (ec = NoError => ~closed)

\* the lambda given to sock->connect in execute
connect_handler(p, ec, wr) ==
  /\ Completes(p, "connect", ec)
  /\ last' = Event("connect", ec)
  /\ IF ec = NoError
     THEN send_request(pending \ {p}, wr)
     ELSE /\ wr = NoError
          /\ pending' = pending \ {p}
          /\ handle_error(sock, closed, ec)
          /\ UNCHANGED <<issued, request, request_buffer>>
  /\ UNCHANGED <<config_vars, executed, tls_client_cert, parse_vars,
                 consume_size, body_calls, transferred, read_calls,
                 owner_holds>>

\* the lambda given to sock->write_async in send_request
write_header_handler(p, ec) ==
  /\ Completes(p, "write_header", ec)
  /\ last' = Event("write_header", ec)
  /\ IF ec = NoError
     THEN /\ send_body(pending \ {p})
          /\ UNCHANGED <<sock, closed, completions, null_calls, fault>>
     ELSE /\ pending' = pending \ {p}
          /\ handle_error(sock, closed, ec)
          /\ UNCHANGED issued
  /\ UNCHANGED <<config_vars, executed, request, request_buffer,
                 tls_client_cert, parse_vars, consume_size, body_calls,
                 transferred, read_calls, owner_holds>>

\* the lambda given to sock->write_async in send_body
write_body_handler(p, ec) ==
  /\ Completes(p, "write_body", ec)
  /\ last' = Event("write_body", ec)
  /\ IF ec = NoError
     THEN /\ read_response(pending \ {p})
          /\ UNCHANGED <<sock, closed, completions, null_calls, fault>>
     ELSE /\ pending' = pending \ {p}
          /\ handle_error(sock, closed, ec)
          /\ UNCHANGED issued
  /\ UNCHANGED <<config_vars, executed, request, request_buffer,
                 tls_client_cert, parse_vars, consume_size, body_calls,
                 transferred, read_calls, owner_holds>>

\* the lambda given to sock->read_until_async in read_response
read_until_handler(p, ec, inp) ==
  /\ Completes(p, "read_until", ec)
  /\ last' = Event("read_until", ec)
  /\ pending' = pending \ {p}
  /\ IF ec = NoError
     THEN /\ handle_response(inp)
          /\ UNCHANGED <<sock, closed, null_calls>>
     ELSE /\ inp = CHOOSE i \in ResponseInputs : TRUE
          /\ handle_error(sock, closed, ec)
          /\ UNCHANGED <<parse_vars, consume_size>>
  /\ UNCHANGED <<config_vars, executed, request, request_buffer,
                 tls_client_cert, issued, body_calls, transferred, read_calls,
                 owner_holds>>

----------------------------------------------------------------------------
(* Body reads, driven by the caller once it has been given a completion.   *)
(* Nothing in read_body_async makes the caller wait for the body callback  *)
(* of an earlier call, so a call may come while a read is outstanding.     *)

\* HttpClient::read_body_async(size, slot)
read_body_async(size) ==
  LET bytes_to_read == BytesToRead(body_length_left, size, consume_size)
  IN
  /\ owner_holds
  /\ fault = "none"
  /\ Len(completions) > 0
  /\ read_calls < MaxReads
  /\ read_calls' = read_calls + 1
  /\ last' = ReadCall(size, bytes_to_read)
  /\ IF bytes_to_read > 0
     THEN IF sock = NullSock
          THEN \* sock->read_async through a null pointer
               /\ null_calls' = null_calls + 1
               /\ \E outcome \in NullDerefOutcomes :
                    fault' = IF outcome = "crash" THEN "null_dereference"
                             ELSE fault
               /\ UNCHANGED <<pending, issued, body_calls>>
          ELSE /\ Issue(pending, "read_body", bytes_to_read)
               /\ UNCHANGED <<null_calls, fault, body_calls>>
     ELSE /\ body_calls' = body_calls + 1
          /\ UNCHANGED <<pending, issued, null_calls, fault>>
  /\ UNCHANGED <<config_vars, executed, request, request_buffer, sock,
                 tls_client_cert, closed, parse_vars, consume_size,
                 completions, transferred, owner_holds>>

\* the lambda given to sock->read_async in read_body_async
read_body_handler(p, ec, bytes_transferred) ==
  /\ Completes(p, "read_body", ec)
  /\ last' = Event("read_body", ec)
  /\ pending' = pending \ {p}
  /\ IF ec = NoError
     THEN /\ body_length_left' = ToSize(body_length_left - bytes_transferred)
          /\ consume_size' = ToSize(consume_size + bytes_transferred)
          /\ transferred' = transferred + bytes_transferred
          /\ body_calls' = body_calls + 1
          /\ UNCHANGED <<sock, closed, completions, null_calls, fault>>
     ELSE /\ handle_error(sock, closed, ec)
          /\ UNCHANGED <<body_length_left, consume_size, transferred,
                         body_calls>>
  /\ UNCHANGED <<config_vars, executed, request, request_buffer,
                 tls_client_cert, issued, response, keep_alive, body_length,
                 at_parse, received, read_calls, owner_holds>>

\* the caller takes n bytes out of the receive buffer it was handed
consume(n) ==
  /\ owner_holds
  /\ fault = "none"
  /\ body_calls > 0
  /\ 0 < n
  /\ n <= consume_size
  /\ consume_size' = consume_size - n
  /\ last' = NoEvent
  /\ UNCHANGED <<config_vars, executed, request, request_buffer, sock,
                 tls_client_cert, closed, pending, issued, parse_vars,
                 completions, body_calls, null_calls, fault, transferred,
                 read_calls, owner_holds>>

\* the owner drops its shared_ptr to the client while a transport operation
\* is outstanding; the client then lives as long as a completion handler
\* holds self
release ==
  /\ owner_holds
  /\ executed
  /\ pending # {}
  /\ fault = "none"
  /\ owner_holds' = FALSE
  /\ last' = NoEvent
  /\ UNCHANGED <<config_vars, executed, request, request_buffer, sock,
                 tls_client_cert, closed, pending, issued, parse_vars,
                 consume_size, completions, body_calls, null_calls, fault,
                 transferred, read_calls>>

----------------------------------------------------------------------------

Outcomes == {NoError} \cup ErrorCodes

Next ==
  \/ \E key \in BOOLEAN : set_client_certificate(TRUE, key)
  \/ set_ca_certificate(TRUE)
  \/ \E req \in RequestInputs, ctor \in Outcomes, conn \in Outcomes :
       execute(req, ctor, conn)
  \/ \E p \in pending, ec \in Outcomes, wr \in Outcomes :
       connect_handler(p, ec, wr)
  \/ \E p \in pending, ec \in Outcomes : write_header_handler(p, ec)
  \/ \E p \in pending, ec \in Outcomes : write_body_handler(p, ec)
  \/ \E p \in pending, ec \in Outcomes, inp \in ResponseInputs :
       read_until_handler(p, ec, inp)
  \/ \E size \in ReadSizes : read_body_async(size)
  \/ \E p \in pending, ec \in Outcomes :
       \E n \in (IF ec = NoError THEN Transfers(p.n) ELSE {0}) :
         read_body_handler(p, ec, n)
  \/ consume(consume_size)
  \/ release

Spec == Init /\ [][Next]_vars

----------------------------------------------------------------------------
(* Properties *)

Succeeded == \E i \in 1..Len(completions) : completions[i].ec = NoError

\* C1: for every exchange and every sequence of transport completions and
\* read_body_async calls, complete_slot is invoked at most once
C1_CompleteAtMostOnce == Len(completions) <= 1

\* C2: once execute was called and every transport operation issued has
\* completed, the completion callback has been invoked, whatever the outcome
\* of each stage, status-line and header parsing included (the exchange
\* makes no further step in such a state, so a callback not yet invoked is
\* never invoked)
C2_CompletedWhenQuiescent ==
  (executed /\ pending = {} /\ null_calls = 0) => Len(completions) > 0

IsPipelineOp(op) == op # "read_body"
PipelineIssued == SelectSeq(issued, IsPipelineOp)
ExpectedPipeline ==
  IF request.content > 0
  THEN <<"connect", "write_header", "write_body", "read_until">>
  ELSE <<"connect", "write_header", "read_until">>
PreviousStage(op) ==
  CASE op = "write_header" -> "connect"
    [] op = "write_body" -> "write_header"
    [] op = "read_until" ->
         IF request.content > 0 THEN "write_body" ELSE "write_header"

C3_Order ==
  /\ Len(PipelineIssued) <= Len(ExpectedPipeline)
  /\ \A i \in 1..Len(PipelineIssued) :
       PipelineIssued[i] = ExpectedPipeline[i]
C3_IssuedFromSuccess ==
  (/\ Len(issued') = Len(issued) + 1
   /\ issued'[Len(issued')] \in {"write_header", "write_body", "read_until"})
  => last' = Event(PreviousStage(issued'[Len(issued')]), NoError)
C3_SuccessAfterReadUntil ==
  (/\ Len(completions') = Len(completions) + 1
   /\ completions'[Len(completions')].ec = NoError)
  => last' = Event("read_until", NoError)

\* C3: the transport operations of an exchange are issued in the order
\* connect, write(header), write(body), read-until, none twice, the body
\* write exactly when the request body is non-empty; each is issued from the
\* successful completion of the one before, and the success completion is
\* invoked from the successful completion of the read-until
C3_Pipeline ==
  /\ []C3_Order
  /\ [][C3_IssuedFromSuccess /\ C3_SuccessAfterReadUntil]_vars

\* a request with a body went through all four stages and succeeded
C3_Witness ==
  /\ Len(PipelineIssued) = 4
  /\ request.content > 0
  /\ Succeeded

Stages == {"connect", "write_header", "write_body", "read_until", "read_body"}

C4_ErrorReported ==
  (last'.op \in Stages /\ last'.ec # NoError)
  => /\ Len(completions') = Len(completions) + 1
     /\ completions'[Len(completions')].ec = last'.ec
     /\ completions'[Len(completions')].sock = NullSock
     /\ completions'[Len(completions')].closed
     /\ completions'[Len(completions')].response = response
     /\ (last'.op = "connect"
           => completions'[Len(completions')].response = EmptyResponse)
     /\ issued' = issued
C4_NoLaterStage == closed => issued' = issued

\* C4: when a stage completes with an I/O error the transport is closed and
\* released before the completion callback is invoked, the callback gets
\* that error code and the response as populated so far (empty for a connect
\* failure), and the exchange issues no later stage
C4_ErrorShortCircuits == [][C4_ErrorReported /\ C4_NoLaterStage]_vars

\* C5: after the exchange failed and its transport was closed and released,
\* no operation is invoked on the transport (through the reset sock) again
C5_NoCallAfterRelease == closed => null_calls = 0

\* C6: at most one asynchronous transport operation is outstanding, body
\* reads driven through read_body_async included
C6_OneOutstanding == Cardinality(pending) <= 1

HeadersParsed == Succeeded

\* C7: after the headers were parsed keep_alive is true without a Connection
\* header, and with one it is false exactly when its value contains "close",
\* whatever the case
C7_KeepAlive ==
  HeadersParsed =>
    (keep_alive <=>
       (\/ ~HeadersHas(response.headers, "Connection")
        \/ ~IFindFirst(HeadersGet(response.headers, "Connection"), STR_close)))

\* the response declares its body length with Content-Length
Framed ==
  /\ HeadersParsed
  /\ HeadersHas(response.headers, "Content-Length")
  /\ ~( /\ HeadersHas(response.headers, "Transfer-Encoding")
        /\ IFindFirst(HeadersGet(response.headers, "Transfer-Encoding"),
                      STR_chunked) )
Declared == DigitsValue(HeadersGet(response.headers, "Content-Length"))

\* C8: for a non-chunked response with Content-Length L and B body bytes in
\* the receive buffer when header parsing finishes, body_length_left right
\* after the parse (before any body read transferred bytes) is
\* max(0, L - B)
C8_LeftAfterParse ==
  (Framed /\ transferred = 0)
  => body_length_left = Max(0, Declared - at_parse)

\* more body bytes arrived with the header block than were declared
C8_Witness ==
  /\ Framed
  /\ transferred = 0
  /\ at_parse > Declared
  /\ Declared > 0
  /\ body_length_left = 0

\* C9: with a declared Content-Length, 0 <= body_length_left <= the declared
\* length in every state, and body_length_left never increases over any
\* sequence of read_body_async calls and read completions
C9_LeftBounded ==
  /\ [](Framed => (0 <= body_length_left /\ body_length_left <= Declared))
  /\ [][Framed => body_length_left' <= body_length_left]_vars

\* C10: with a declared Content-Length L, body_length_left is zero exactly
\* when the bytes buffered at header parse plus the bytes transferred by all
\* body reads total at least L
C10_ZeroIffDelivered ==
  Framed => (body_length_left = 0 <=> at_parse + transferred >= Declared)

\* the byte count the body reader is to ask for, in unbounded integers
Shortfall(left, size, buffered) == Min(left, Max(0, size - buffered))

IsReadCall == last'.op = "read_body_async"

C11_IssuesOne ==
  /\ Len(issued') = Len(issued) + 1
  /\ issued'[Len(issued')] = "read_body"
  /\ Cardinality(pending') = Cardinality(pending) + 1
  /\ body_calls' = body_calls
C11_DeliversAtOnce ==
  /\ issued' = issued
  /\ pending' = pending
  /\ body_calls' = body_calls + 1
  /\ body_length_left' = body_length_left

\* C11: read_body_async(max_size) issues exactly one transport read when
\* min(body_length_left, max(0, max_size - already_buffered)) is positive;
\* when it is zero it issues nothing, calls the body callback at once and
\* leaves body_length_left unchanged
C11_ReadOrDeliver ==
  [][IsReadCall =>
       IF Shortfall(body_length_left, last'.size, consume_size) > 0
       THEN C11_IssuesOne
       ELSE C11_DeliversAtOnce]_vars

\* C12: the number of bytes read_body_async asks the transport for is
\* min(body_length_left, max(0, max_size - already_buffered)) for every
\* max_size and buffered amount of the size type
C12_BytesToRead ==
  [][IsReadCall =>
       last'.n = Shortfall(body_length_left, last'.size, consume_size)]_vars

\* C13: with a declared Content-Length L and B body bytes buffered at header
\* parse, the bytes asked for and transferred by body reads, over any
\* sequence of read_body_async calls, never exceed L - B
C13_NoOverRead ==
  Framed =>
    /\ transferred <= Max(0, Declared - at_parse)
    /\ \A p \in pending :
         p.op = "read_body" => transferred + p.n <= Max(0, Declared - at_parse)

HeaderWritten == \E i \in 1..Len(issued) : issued[i] = "write_header"
LinesOf(name) == {l \in request_buffer : l[1] = HeaderKey(name)}
WrittenChunked ==
  \E l \in LinesOf("Transfer-Encoding") : IFindFirst(l[2], STR_chunked)

\* C14: in every request written to the transport the Host header is present
\* and equals the URI's host, and Content-Length is present and numerically
\* equal to the body length unless Transfer-Encoding contains "chunked", in
\* which case none is injected; whatever headers the caller supplied (the
\* chunked requests of the model carry no Content-Length of the caller's)
C14_RequestHeaders ==
  HeaderWritten =>
    /\ LinesOf("Host") # {}
    /\ \A l \in LinesOf("Host") : l[2] = request.host
    /\ IF WrittenChunked
       THEN LinesOf("Content-Length") = {}
       ELSE /\ LinesOf("Content-Length") # {}
            /\ \A l \in LinesOf("Content-Length") :
                 AllDigits(l[2]) /\ DigitsValue(l[2]) = request.content

HeaderBlockReceived == received # <<>>
ReceivedChunked ==
  /\ HeadersHas(received[1].headers, "Transfer-Encoding")
  /\ IFindFirst(HeadersGet(received[1].headers, "Transfer-Encoding"),
                STR_chunked)
MalformedStatusLine ==
  /\ HeaderBlockReceived
  /\ ~AllDigits(received[1].line[1])
InvalidContentLength ==
  /\ HeaderBlockReceived
  /\ ~ReceivedChunked
  /\ HeadersHas(received[1].headers, "Content-Length")
  /\ ~AllDigits(HeadersGet(received[1].headers, "Content-Length"))

\* C15: a status line whose code is not an integer, or a Content-Length that
\* is not an unsigned integer, ends the exchange as failed: the completion
\* callback is invoked with the error and never with success, and the
\* transport is closed and released
C15_MalformedFails ==
  (MalformedStatusLine \/ InvalidContentLength) =>
    /\ Len(completions) > 0
    /\ ~Succeeded
    /\ closed
    /\ sock = NullSock

\* a response that declares neither a Content-Length nor chunked encoding
Unframed ==
  /\ Succeeded
  /\ HeaderBlockReceived
  /\ ~ReceivedChunked
  /\ ~HeadersHas(received[1].headers, "Content-Length")

\* C16: for a response with neither Content-Length nor chunked encoding the
\* body runs to the close of the connection: a read_body_async call that
\* asks for more than is buffered issues a transport read as long as the
\* connection is open
C16_ReadsUntilClose ==
  [][(IsReadCall /\ Unframed /\ sock # NullSock /\ ~closed
        /\ last'.size > consume_size)
       => (/\ Len(issued') = Len(issued) + 1
           /\ issued'[Len(issued')] = "read_body")]_vars

\* index of the first element of raw, from i on, that is not a digit
RECURSIVE SizeEnd(_, _)
SizeEnd(raw, i) ==
  IF i <= Len(raw) /\ IsDigit(raw[i]) THEN SizeEnd(raw, i + 1) ELSE i

\* the payload of the complete chunks in raw, and whether the zero-size
\* chunk was reached (chunk sizes written with the digits 0-9)
RECURSIVE DecodeChunks(_)
DecodeChunks(raw) ==
  LET e == SizeEnd(raw, 1)
      size == DigitsValue(SubSeq(raw, 1, e - 1))
      none == [payload |-> <<>>, final |-> FALSE]
  IN IF e = 1 \/ Len(raw) < e + 1 \/ raw[e] # "\r" \/ raw[e + 1] # "\n"
     THEN none
     ELSE IF size = 0 THEN [payload |-> <<>>, final |-> TRUE]
     ELSE IF Len(raw) < e + 1 + size + 2 THEN none
     ELSE LET rest == DecodeChunks(SubSeq(raw, e + size + 4, Len(raw)))
          IN [payload |-> SubSeq(raw, e + 2, e + 1 + size) \o rest.payload,
              final |-> rest.final]

\* the first body callback of the exchange was just made by read_body_async,
\* so the buffer it hands over holds the spill bytes
FirstBodyCallback ==
  /\ HeaderBlockReceived
  /\ last.op = "read_body_async"
  /\ read_calls = 1
  /\ body_calls = 1

\* C17: for a response with Transfer-Encoding: chunked and no Content-Length
\* a read_body call delivers only the payload of complete chunks, never a
\* partial chunk or chunk-size metadata
C17_DeliversDecodedChunks ==
  ( /\ FirstBodyCallback
    /\ ReceivedChunked
    /\ ~HeadersHas(received[1].headers, "Content-Length") )
  => SpillBytes(received[1]) = DecodeChunks(SpillBytes(received[1])).payload

\* C18: the transport is chosen once, by execute, and never chosen again:
\* TLS exactly when a CA certificate is configured; on TLS the client
\* certificate and key are installed, before the connect, exactly when both
\* are configured; without a CA certificate the transport is plain TCP even
\* when a client certificate and key are configured
C18_TransportChosenOnce ==
  /\ [](sock # NullSock => (sock = "tls" <=> ca_cert))
  /\ [](issued # <<>> =>
          (tls_client_cert <=> (ca_cert /\ client_cert /\ client_key)))
  /\ [][sock # NullSock => sock' \in {sock, NullSock}]_vars
  /\ [][(sock = NullSock /\ sock' # NullSock) => (~executed /\ executed')]_vars

\* a plain TCP transport carries the exchange although a client certificate
\* and key are configured
C18_Witness ==
  /\ sock = "tcp"
  /\ client_cert
  /\ client_key
  /\ ~ca_cert
  /\ ~tls_client_cert
  /\ Len(issued) >= 2

\* the client has no shared_ptr left: neither the owner's nor a handler's
Destroyed == ~owner_holds /\ ~(\E p \in pending : p.self)
HandlerRuns == last'.op \in Stages

\* C19: while an asynchronous transport operation is outstanding its
\* completion handler holds a shared reference to the client, so no handler
\* runs on a destroyed client even when the owner has dropped its reference
C19_HandlerOnLiveClient ==
  /\ [](pending # {} => ~Destroyed)
  /\ [][HandlerRuns => ~Destroyed]_vars

\* the owner dropped its reference while the header write was outstanding,
\* and the exchange went on to read the response
C19_Witness ==
  /\ ~owner_holds
  /\ last = Event("read_until", NoError)
  /\ Succeeded

\* C20: every read_body_async call results in exactly one invocation of the
\* body callback passed to it; when the transport read completes with an
\* error the body callback of that call is still invoked
C20_OneBodyCallbackPerCall ==
  /\ [](body_calls <= read_calls)
  /\ [][last'.op = "read_body" => body_calls' = body_calls + 1]_vars

====
